---- MODULE Spec2Model ----
(***************************************************************************)
(* A model of the text search engine core: the compact radix trie          *)
(* (src/compact_trie.py), the boolean query pipeline and Z-score ranker    *)
(* (src/RI.py) and the indexer with its three persisted artifacts          *)
(* (src/indexer.py).                                                       *)
(*                                                                         *)
(* A Python str is a sequence of one-character strings, a TrieNode object  *)
(* is a record in a heap (a sequence of nodes, the root at index 1), and a *)
(* text file is a sequence of lines.                                       *)
(***************************************************************************)
EXTENDS Bags, FiniteSets, Integers, Sequences, TLC

VARIABLES
    trie,        \* CompactTrie under construction: heap of TrieNode records
    inserted,    \* bag of the <<word, doc_id, frequency>> triples inserted so far
    nchars,      \* number of characters inserted so far
    trie_file,   \* the file written by save_to_file: [exists, lines]
    loaded,      \* the outcome of load_from_file on trie_file: [done, ok, heap]
    ri,          \* the InformationRetriever: [is_ready, trie, global_stats]
    query,       \* the query string being typed
    outcome,     \* the last search: [done, error, matching, returned]
    corpus,      \* the texts of the .txt files, in the order os.walk yields them
    disk,        \* the three artifact paths: [trie, map, stats]
    ix,          \* the Indexer: [trie, doc_map, global_stats, total_docs]
    pc,          \* where the indexer process is
    run          \* how many indexer processes have been started

trieVars == <<trie, inserted, nchars, trie_file, loaded>>
queryVars == <<ri, query, outcome>>
indexVars == <<corpus, disk, ix, pc, run>>
vars == <<trieVars, queryVars, indexVars>>

(***************************************************************************)
(* Bounds and input sets.                                                  *)
(***************************************************************************)
\* The inserts of one run carry at most MaxChars characters in total.
MaxChars == 6

\* The characters of the inserted terms.
TrieChars == {"a", "b"}

\* A query is any sequence of at most MaxFreeTokens tokens, or a prefix of a
\* well-formed query of at most MaxTokens tokens whose further terms are in
\* the index.
MaxFreeTokens == 3
MaxTokens == 7

\* A corpus holds at most MaxDocs files, and the indexer is started at most
\* MaxRuns times on it.
MaxDocs == 2
MaxRuns == 2

\* The inserts behind a trie file that gets damaged carry at most
\* MaxLoadChars characters in total.
MaxLoadChars == 4

\* The (doc_id, frequency) payloads an insert can carry.
Postings == {<<1, 3>>, <<2, 12>>}

\* A path at which no file exists, and a file holding the given lines.
Absent == [exists |-> FALSE, lines |-> <<>>]
File(lines) == [exists |-> TRUE, lines |-> lines]

(***************************************************************************)
(* Characters.  Python orders one-character strings by code point.         *)
(***************************************************************************)
CodeOrder ==
    <<" ", "&", "(", ")", ",", "-",
      "0", "1", "2", "3", "4", "5", "6", "7", "8", "9", ";",
      "A", "B", "D", "N", "O", "R", "a", "b", "c", "|">>

Ord(c) == CHOOSE i \in DOMAIN CodeOrder : CodeOrder[i] = c

\* str.strip() removes these from both ends.
Whitespace == {" ", "\n"}

Digits == <<"0", "1", "2", "3", "4", "5", "6", "7", "8", "9">>

RECURSIVE Concat(_)
\* The concatenation of a sequence of sequences.
Concat(ss) == IF ss = <<>> THEN <<>> ELSE Head(ss) \o Concat(Tail(ss))

RECURSIVE SortedKeys(_)
\* sorted(keys): the keys in ascending code-point order.
SortedKeys(S) ==
    IF S = {} THEN <<>>
    ELSE LET m == CHOOSE x \in S : \A y \in S : Ord(x) <= Ord(y)
         IN  <<m>> \o SortedKeys(S \ {m})

Range(s) == {s[i] : i \in DOMAIN s}

(***************************************************************************)
(* TrieNode and CompactTrie.                                               *)
(***************************************************************************)
\* TrieNode.__init__
TrieNode ==
    [label |-> <<>>, children |-> <<>>, is_terminal |-> FALSE, inverted_index |-> <<>>]

\* CompactTrie.__init__: a heap holding the root alone.
CompactTrie == <<TrieNode>>

RECURSIVE MismatchFrom(_, _, _)
MismatchFrom(word, label, i) ==
    IF i < Len(word) /\ i < Len(label) /\ word[i + 1] = label[i + 1]
    THEN MismatchFrom(word, label, i + 1)
    ELSE i

\* CompactTrie._find_mismatch_point: length of the common prefix.
FindMismatchPoint(word, label) == MismatchFrom(word, label, 0)

\* s[k:] of Python, k a 0-based offset.
From(s, k) == SubSeq(s, k + 1, Len(s))

\* s[:k] of Python.
Upto(s, k) == SubSeq(s, 1, k)

\* A new terminal node holding one posting.
Leaf(label, doc_id, frequency) ==
    [label |-> label, children |-> <<>>, is_terminal |-> TRUE,
     inverted_index |-> <<<<doc_id, frequency>>>>]

\* Case B without step 3: the old child is not linked below the new node.
SplitPrefixUnlinked(h, cur, char, child, rem, m, doc_id, frequency) ==
    Append([h EXCEPT ![child].label = From(h[child].label, m),
                     ![cur].children = (char :> (Len(h) + 1)) @@ @],
           Leaf(rem, doc_id, frequency))

\* Case B with the payload of the old child moved up to the new node.
SplitPrefixTakingList(h, cur, char, child, rem, m, doc_id, frequency) ==
    LET remaining_label == From(h[child].label, m)
        id == Len(h) + 1
        new_node == [Leaf(rem, doc_id, frequency) EXCEPT
                        !.children = (remaining_label[1] :> child),
                        !.inverted_index = h[child].inverted_index \o @]
    IN  Append([h EXCEPT ![child].label = remaining_label,
                         ![child].inverted_index = <<>>,
                         ![cur].children = (char :> id) @@ @],
               new_node)

\* Case B of insert: the word is a strict prefix of the child's label.
SplitPrefix(h, cur, char, child, rem, m, doc_id, frequency) ==
    LET remaining_label == From(h[child].label, m)
        id == Len(h) + 1
        new_node == [Leaf(rem, doc_id, frequency) EXCEPT
                        !.children = (remaining_label[1] :> child)]
    IN  Append([h EXCEPT ![child].label = remaining_label,
                         ![cur].children = (char :> id) @@ @],
               new_node)

\* Case D without step 2: the old child keeps its whole label.
SplitDivergeUntrimmed(h, cur, char, child, rem, m, doc_id, frequency) ==
    LET child_label == h[child].label
        new_word_part == From(rem, m)
        split_node == [TrieNode EXCEPT
                          !.label = Upto(child_label, m),
                          !.children = (new_word_part[1] :> (Len(h) + 2))
                                       @@ (From(child_label, m)[1] :> child)]
    IN  [h EXCEPT ![cur].children = (char :> (Len(h) + 1)) @@ @]
        \o <<split_node, Leaf(new_word_part, doc_id, frequency)>>

\* Case D of insert: the word and the child's label diverge after m characters.
SplitDiverge(h, cur, char, child, rem, m, doc_id, frequency) ==
    LET child_label == h[child].label
        new_word_part == From(rem, m)
        split_id == Len(h) + 1
        new_id == Len(h) + 2
        split_node == [TrieNode EXCEPT
                          !.label = Upto(child_label, m),
                          !.children = (new_word_part[1] :> new_id)
                                       @@ (From(child_label, m)[1] :> child)]
    IN  [h EXCEPT ![child].label = From(child_label, m),
                  ![cur].children = (char :> split_id) @@ @]
        \o <<split_node, Leaf(new_word_part, doc_id, frequency)>>

RECURSIVE InsertLoop(_, _, _, _, _)
\* The while loop of CompactTrie.insert, from current_node = cur and
\* remaining_word = rem.
InsertLoop(h, cur, rem, doc_id, frequency) ==
    IF rem = <<>> THEN h
    ELSE
    LET char == rem[1] IN
    IF char \notin DOMAIN h[cur].children
    THEN Append([h EXCEPT ![cur].children = (char :> (Len(h) + 1)) @@ @],
                Leaf(rem, doc_id, frequency))
    ELSE
    LET child == h[cur].children[char]
        child_label == h[child].label
        m == FindMismatchPoint(rem, child_label)
    IN  IF m = Len(rem) /\ m = Len(child_label)
        THEN [h EXCEPT ![child].is_terminal = TRUE,
                       ![child].inverted_index = Append(@, <<doc_id, frequency>>)]
        ELSE IF m = Len(rem)
        THEN SplitPrefix(h, cur, char, child, rem, m, doc_id, frequency)
        ELSE IF m = Len(child_label)
        THEN InsertLoop(h, child, From(rem, m), doc_id, frequency)
        ELSE IF 0 < m /\ m < Len(child_label)
        THEN SplitDiverge(h, cur, char, child, rem, m, doc_id, frequency)
        ELSE h   \* m = 0 < len(child_label): no branch is taken

\* CompactTrie.insert
TrieInsert(h, word, doc_id, frequency) == InsertLoop(h, 1, word, doc_id, frequency)

RECURSIVE FindLoop(_, _, _)
\* The while loop of CompactTrie.find and the test that follows it.
FindLoop(h, cur, rem) ==
    IF rem = <<>>
    THEN IF h[cur].is_terminal THEN h[cur].inverted_index ELSE <<>>
    ELSE
    LET char == rem[1] IN
    IF char \notin DOMAIN h[cur].children THEN <<>>
    ELSE
    LET child == h[cur].children[char]
        child_label == h[child].label
        m == FindMismatchPoint(rem, child_label)
    IN  IF m = Len(rem)
        THEN IF m = Len(child_label) THEN FindLoop(h, child, <<>>) ELSE <<>>
        ELSE IF m = Len(child_label)
        THEN FindLoop(h, child, From(rem, m))
        ELSE <<>>

\* CompactTrie.find
TrieFind(h, word) == FindLoop(h, 1, word)

RECURSIVE PreOrder(_, _)
\* The nodes reachable from id, parents first, children in key order.
PreOrder(h, id) ==
    LET keys == SortedKeys(DOMAIN h[id].children)
    IN  <<id>> \o Concat([k \in DOMAIN keys |-> PreOrder(h, h[id].children[keys[k]])])

\* The heap up to object identity: the reachable nodes, renumbered parents
\* first.  Python code cannot observe which object a node is, only what the
\* references from the root lead to.
Normalize(h) ==
    LET order == PreOrder(h, 1)
        new(id) == CHOOSE i \in DOMAIN order : order[i] = id
    IN  [i \in DOMAIN order |->
            [h[order[i]] EXCEPT
                !.children = [c \in DOMAIN @ |-> new(@[c])]]]

(***************************************************************************)
(* Persistence of the trie: one line per node, in pre-order.               *)
(***************************************************************************)
RECURSIVE IntToStr(_)
\* f"{n}" for an int n >= 0.
IntToStr(n) ==
    IF n < 10 THEN <<Digits[n + 1]>>
    ELSE IntToStr(n \div 10) \o <<Digits[(n % 10) + 1]>>

RECURSIVE Join(_, _)
\* sep.join(parts)
Join(sep, parts) ==
    IF parts = <<>> THEN <<>>
    ELSE IF Len(parts) = 1 THEN parts[1]
    ELSE parts[1] \o sep \o Join(sep, Tail(parts))

\* The line with the postings joined by "," instead of ";".
NodeLineCommaJoined(node) ==
    LET index_str ==
            Join(<<",">>, [i \in DOMAIN node.inverted_index |->
                              IntToStr(node.inverted_index[i][1]) \o <<",">>
                              \o IntToStr(node.inverted_index[i][2])])
    IN  node.label \o <<"|">>
        \o <<IF node.is_terminal THEN "1" ELSE "0">> \o <<"|">>
        \o IntToStr(Cardinality(DOMAIN node.children)) \o <<"|">>
        \o index_str \o <<"\n">>

\* The line pre_order_serialize writes for a node.
NodeLine(node) ==
    LET index_str ==
            Join(<<";">>, [i \in DOMAIN node.inverted_index |->
                              IntToStr(node.inverted_index[i][1]) \o <<",">>
                              \o IntToStr(node.inverted_index[i][2])])
    IN  node.label \o <<"|">>
        \o <<IF node.is_terminal THEN "1" ELSE "0">> \o <<"|">>
        \o IntToStr(Cardinality(DOMAIN node.children)) \o <<"|">>
        \o index_str \o <<"\n">>

RECURSIVE PreOrderSerialize(_, _)
\* CompactTrie.pre_order_serialize: the lines written for the subtree of id.
PreOrderSerialize(h, id) ==
    LET keys == SortedKeys(DOMAIN h[id].children)
    IN  <<NodeLine(h[id])>>
        \o Concat([k \in DOMAIN keys |->
                      PreOrderSerialize(h, h[id].children[keys[k]])])

\* CompactTrie.save_to_file, the write succeeding.
SaveToFile(h) == File(PreOrderSerialize(h, 1))

RECURSIVE Strip(_)
\* str.strip()
Strip(s) ==
    IF s = <<>> THEN s
    ELSE IF s[1] \in Whitespace THEN Strip(Tail(s))
    ELSE IF s[Len(s)] \in Whitespace THEN Strip(SubSeq(s, 1, Len(s) - 1))
    ELSE s

RECURSIVE SplitFrom(_, _, _, _)
SplitFrom(s, sep, field, i) ==
    IF i > Len(s) THEN <<field>>
    ELSE IF s[i] = sep THEN <<field>> \o SplitFrom(s, sep, <<>>, i + 1)
    ELSE SplitFrom(s, sep, Append(field, s[i]), i + 1)

\* s.split(sep) for a one-character separator.
Split(s, sep) == SplitFrom(s, sep, <<>>, 1)

RECURSIVE DigitsValue(_, _)
DigitsValue(s, acc) ==
    IF s = <<>> THEN acc
    ELSE DigitsValue(Tail(s),
                     10 * acc + (CHOOSE d \in 0..9 : Digits[d + 1] = s[1]))

\* int(s) for a string without sign or blanks: ok is FALSE where int raises
\* ValueError.
ParseInt(s) ==
    IF s # <<>> /\ \A i \in DOMAIN s : s[i] \in Range(Digits)
    THEN [ok |-> TRUE, val |-> DigitsValue(s, 0)]
    ELSE [ok |-> FALSE, val |-> 0]

RECURSIVE ParseItems(_, _)
\* The loop over index_str.split(';'): the postings appended so far and
\* whether an item raised.
ParseItems(items, acc) ==
    IF items = <<>> THEN [ok |-> TRUE, index |-> acc]
    ELSE
    LET parts == Split(items[1], ",")
        ints == [i \in DOMAIN parts |-> ParseInt(parts[i])]
    IN  IF Len(parts) = 2 /\ \A i \in DOMAIN ints : ints[i].ok
        THEN ParseItems(Tail(items), Append(acc, <<ints[1].val, ints[2].val>>))
        ELSE [ok |-> FALSE, index |-> acc]

\* `if index_str: for item in index_str.split(';'): ...`
ParseIndex(index_str) ==
    IF index_str = <<>> THEN [ok |-> TRUE, index |-> <<>>]
    ELSE ParseItems(Split(index_str, ";"), <<>>)

RECURSIVE LoadLoop(_, _, _, _)
\* `for line in f` of load_from_file, at line i with the given stack of
\* <<parent_node, remaining_children>>.
LoadLoop(h, stack, lines, i) ==
    IF i > Len(lines) \/ stack = <<>> THEN [ok |-> TRUE, heap |-> h]
    ELSE
    LET parent_node == stack[Len(stack)][1]
        remaining_children == stack[Len(stack)][2] - 1
        fields == Split(Strip(lines[i]), "|")
    IN  IF Len(fields) # 4 THEN [ok |-> FALSE, heap |-> h]
        ELSE
        LET num_children == ParseInt(fields[3])
            index == ParseIndex(fields[4])
            id == Len(h) + 1
            new_node == [label |-> fields[1], children |-> <<>>,
                         is_terminal |-> (fields[2] = <<"1">>),
                         inverted_index |-> index.index]
            popped == IF remaining_children = 0
                      THEN SubSeq(stack, 1, Len(stack) - 1)
                      ELSE [stack EXCEPT ![Len(stack)] =
                                            <<parent_node, remaining_children>>]
            pushed == IF num_children.val > 0
                      THEN Append(popped, <<id, num_children.val>>)
                      ELSE popped
        IN  IF ~num_children.ok \/ ~index.ok \/ fields[1] = <<>>
            THEN [ok |-> FALSE, heap |-> h]
            ELSE LoadLoop(Append([h EXCEPT ![parent_node].children =
                                              (fields[1][1] :> id) @@ @],
                                 new_node),
                          pushed, lines, i + 1)

\* CompactTrie.load_from_file: the value returned and the trie the object
\* holds afterwards (self.root is replaced before the file is opened).
LoadFromFile(file) ==
    IF ~file.exists \/ file.lines = <<>> THEN [ok |-> FALSE, heap |-> CompactTrie]
    ELSE
    LET fields == Split(Strip(file.lines[1]), "|") IN
    IF Len(fields) # 4 THEN [ok |-> FALSE, heap |-> CompactTrie]
    ELSE
    LET num_children == ParseInt(fields[3])
        index == ParseIndex(fields[4])
        labelled == [TrieNode EXCEPT !.label = fields[1],
                                     !.is_terminal = (fields[2] = <<"1">>)]
        root == [labelled EXCEPT !.inverted_index = index.index]
    IN  IF ~num_children.ok THEN [ok |-> FALSE, heap |-> <<labelled>>]
        ELSE IF ~index.ok THEN [ok |-> FALSE, heap |-> <<root>>]
        ELSE LoadLoop(<<root>>,
                      IF num_children.val > 0 THEN <<<<1, num_children.val>>>>
                      ELSE <<>>,
                      file.lines, 2)

(***************************************************************************)
(* The query pipeline of InformationRetriever: tokens, shunting-yard,      *)
(* evaluation of the postfix form.                                         *)
(***************************************************************************)
OR == <<"O", "R">>
AND == <<"A", "N", "D">>
LPAREN == <<"(">>
RPAREN == <<")">>

\* The keys of OP_PRECEDENCE.
OpTokens == {OR, AND, LPAREN, RPAREN}

\* The table with AND and OR at the same level.
OpPrecedenceFlat(token) ==
    CASE token = OR -> 1
      [] token = AND -> 1
      [] OTHER -> 0

\* OP_PRECEDENCE.get(token, 0)
OpPrecedence(token) ==
    CASE token = OR -> 1
      [] token = AND -> 2
      [] OTHER -> 0

\* str.lower() on one character.
LowerChar(c) ==
    CASE c = "A" -> "a" [] c = "B" -> "b" [] c = "D" -> "d"
      [] c = "N" -> "n" [] c = "O" -> "o" [] c = "R" -> "r"
      [] OTHER -> c

\* str.lower()
Lower(s) == [i \in DOMAIN s |-> LowerChar(s[i])]

\* query.replace('(', ' ( ').replace(')', ' ) ')
SpaceParens(s) ==
    Concat([i \in DOMAIN s |->
               IF s[i] \in {"(", ")"} THEN <<" ", s[i], " ">> ELSE <<s[i]>>])

RECURSIVE SplitBlanks(_, _, _)
SplitBlanks(s, word, i) ==
    IF i > Len(s) THEN (IF word = <<>> THEN <<>> ELSE <<word>>)
    ELSE IF s[i] \in Whitespace
    THEN (IF word = <<>> THEN <<>> ELSE <<word>>) \o SplitBlanks(s, <<>>, i + 1)
    ELSE SplitBlanks(s, Append(word, s[i]), i + 1)

\* str.split(): the maximal runs of non-blank characters.
SplitWords(s) == SplitBlanks(s, <<>>, 1)

\* InformationRetriever._tokenize_query
TokenizeQuery(q) ==
    LET tokens == SplitWords(SpaceParens(q))
    IN  [i \in DOMAIN tokens |->
            IF tokens[i] \in OpTokens THEN tokens[i] ELSE Lower(tokens[i])]

Top(stack) == stack[Len(stack)]
Pop(stack) == SubSeq(stack, 1, Len(stack) - 1)

RECURSIVE PopToParen(_, _)
\* `while operator_stack and operator_stack[-1] != '(': output.append(pop())`
\* followed by the discard of the '(' if there is one.
PopToParen(output, stack) ==
    IF stack # <<>> /\ Top(stack) # LPAREN
    THEN PopToParen(Append(output, Top(stack)), Pop(stack))
    ELSE IF stack # <<>> /\ Top(stack) = LPAREN
    THEN [output |-> output, stack |-> Pop(stack)]
    ELSE [output |-> output, stack |-> stack]

RECURSIVE PushOperator(_, _, _)
\* The operator branch: pop while the top is not '(' and binds at least as
\* tightly as the token, then push the token.
PushOperator(output, stack, token) ==
    IF /\ stack # <<>>
       /\ Top(stack) # LPAREN
       /\ OpPrecedence(Top(stack)) >= OpPrecedence(token)
    THEN PushOperator(Append(output, Top(stack)), Pop(stack), token)
    ELSE [output |-> output, stack |-> Append(stack, token)]

RECURSIVE Reversed(_)
Reversed(s) == IF s = <<>> THEN <<>> ELSE Reversed(Tail(s)) \o <<Head(s)>>

RECURSIVE ToRpnLoop(_, _, _, _)
\* `for token in tokens` of _to_rpn at token i, and the final drain.
ToRpnLoop(tokens, i, output, stack) ==
    IF i > Len(tokens) THEN output \o Reversed(stack)
    ELSE
    LET token == tokens[i] IN
    IF token \notin OpTokens
    THEN ToRpnLoop(tokens, i + 1, Append(output, token), stack)
    ELSE IF token = LPAREN
    THEN ToRpnLoop(tokens, i + 1, output, Append(stack, token))
    ELSE IF token = RPAREN
    THEN LET r == PopToParen(output, stack)
         IN  ToRpnLoop(tokens, i + 1, r.output, r.stack)
    ELSE LET r == PushOperator(output, stack, token)
         IN  ToRpnLoop(tokens, i + 1, r.output, r.stack)

\* InformationRetriever._to_rpn
ToRpn(tokens) == ToRpnLoop(tokens, 1, <<>>, <<>>)

\* {doc_id for doc_id, tf in index_list}
DocIds(index_list) == {index_list[i][1] : i \in DOMAIN index_list}

RECURSIVE EvalLoopNoFinalTest(_, _, _, _)
\* The evaluation without the test that one set remains: the top of the
\* stack is returned.
EvalLoopNoFinalTest(h, rpn, i, stack) ==
    IF i > Len(rpn)
    THEN IF stack = <<>> THEN [error |-> TRUE, value |-> {}]
         ELSE [error |-> FALSE, value |-> Top(stack)]
    ELSE
    LET token == rpn[i] IN
    IF token \notin OpTokens
    THEN EvalLoopNoFinalTest(h, rpn, i + 1,
                             Append(stack, DocIds(TrieFind(h, token))))
    ELSE IF token \in {AND, OR}
    THEN IF Len(stack) < 2 THEN [error |-> TRUE, value |-> {}]
         ELSE EvalLoopNoFinalTest(h, rpn, i + 1,
                  Append(Pop(Pop(stack)),
                         IF token = AND THEN Top(Pop(stack)) \cap Top(stack)
                         ELSE Top(Pop(stack)) \cup Top(stack)))
    ELSE EvalLoopNoFinalTest(h, rpn, i + 1, stack)

RECURSIVE EvalLoop(_, _, _, _)
\* `for token in rpn_tokens` of _evaluate_rpn at token i, and the final test;
\* error is TRUE where the method raises ValueError.
EvalLoop(h, rpn, i, stack) ==
    IF i > Len(rpn)
    THEN IF Len(stack) # 1 THEN [error |-> TRUE, value |-> {}]
         ELSE [error |-> FALSE, value |-> Top(stack)]
    ELSE
    LET token == rpn[i] IN
    IF token \notin OpTokens
    THEN EvalLoop(h, rpn, i + 1, Append(stack, DocIds(TrieFind(h, token))))
    ELSE IF token = AND
    THEN IF Len(stack) < 2 THEN [error |-> TRUE, value |-> {}]
         ELSE EvalLoop(h, rpn, i + 1,
                       Append(Pop(Pop(stack)), Top(Pop(stack)) \cap Top(stack)))
    ELSE IF token = OR
    THEN IF Len(stack) < 2 THEN [error |-> TRUE, value |-> {}]
         ELSE EvalLoop(h, rpn, i + 1,
                       Append(Pop(Pop(stack)), Top(Pop(stack)) \cup Top(stack)))
    ELSE EvalLoop(h, rpn, i + 1, stack)   \* '(' or ')': no branch is taken

\* InformationRetriever._evaluate_rpn
EvaluateRpn(h, rpn) == EvalLoop(h, rpn, 1, <<>>)

(***************************************************************************)
(* The ranker.  A float is modelled by the exact rational <<num, den>>,    *)
(* den > 0, it approximates.                                               *)
(***************************************************************************)
Rat(n) == <<n, 1>>
RatAdd(x, y) == <<x[1] * y[2] + y[1] * x[2], x[2] * y[2]>>
RatLess(x, y) == x[1] * y[2] < y[1] * x[2]
RatEq(x, y) == x[1] * y[2] = y[1] * x[2]

\* (tf - mu) / sigma, with no test of sigma.
CalculateZScoreUnguarded(stats, tf, term) ==
    IF term \notin DOMAIN stats THEN Rat(0)
    ELSE
    LET mu == stats[term].mu
        sigma == stats[term].sigma
    IN  <<(tf * mu[2] - mu[1]) * sigma[2], mu[2] * sigma[1]>>

\* InformationRetriever._calculate_z_score
CalculateZScore(stats, tf, term) ==
    IF term \notin DOMAIN stats THEN Rat(0)
    ELSE
    LET mu == stats[term].mu
        sigma == stats[term].sigma
    IN  IF sigma[1] <= 0
        THEN (IF tf * mu[2] > mu[1] THEN Rat(1) ELSE Rat(0))
        ELSE <<(tf * mu[2] - mu[1]) * sigma[2], mu[2] * sigma[1]>>

RECURSIVE FirstTf(_, _, _)
\* next((t for d, t in index_list if d == doc_id), 0)
FirstTf(index_list, doc_id, i) ==
    IF i > Len(index_list) THEN 0
    ELSE IF index_list[i][1] = doc_id THEN index_list[i][2]
    ELSE FirstTf(index_list, doc_id, i + 1)

RECURSIVE ScoreTerms(_, _, _, _)
\* The loop over query_terms for one document: total_z_score and term_count.
ScoreTerms(r, doc_id, terms, acc) ==
    IF terms = {} THEN acc
    ELSE
    LET term == CHOOSE t \in terms : TRUE
        tf == FirstTf(TrieFind(r.trie, term), doc_id, 1)
    IN  ScoreTerms(r, doc_id, terms \ {term},
                   IF tf > 0
                   THEN [total |-> RatAdd(acc.total,
                                          CalculateZScore(r.global_stats, tf, term)),
                         count |-> acc.count + 1]
                   ELSE acc)

RECURSIVE RankedDocsPositiveOnly(_, _, _, _)
\* The loop over doc_ids keeping a document only if its total z-score is
\* positive.
RankedDocsPositiveOnly(r, order, query_terms, i) ==
    IF i > Len(order) THEN <<>>
    ELSE
    LET s == ScoreTerms(r, order[i], query_terms, [total |-> Rat(0), count |-> 0])
    IN  (IF s.count > 0 /\ RatLess(Rat(0), s.total)
         THEN <<<<<<s.total[1], s.total[2] * s.count>>, order[i]>>>>
         ELSE <<>>)
        \o RankedDocsPositiveOnly(r, order, query_terms, i + 1)

RECURSIVE RankedDocs(_, _, _, _)
\* The loop over doc_ids, iterated in the given order: the list of
\* <<relevance, doc_id>> pairs.
RankedDocs(r, order, query_terms, i) ==
    IF i > Len(order) THEN <<>>
    ELSE
    LET s == ScoreTerms(r, order[i], query_terms, [total |-> Rat(0), count |-> 0])
    IN  (IF s.count > 0
         THEN <<<<<<s.total[1], s.total[2] * s.count>>, order[i]>>>>
         ELSE <<>>)
        \o RankedDocs(r, order, query_terms, i + 1)

RECURSIVE InsertByRelevance(_, _)
InsertByRelevance(sorted, x) ==
    IF sorted = <<>> THEN <<x>>
    ELSE IF RatLess(Head(sorted)[1], x[1]) THEN <<x>> \o sorted
    ELSE <<Head(sorted)>> \o InsertByRelevance(Tail(sorted), x)

RECURSIVE SortByRelevance(_, _)
\* list.sort(key=relevance, reverse=True): descending and stable, so elements
\* of equal relevance keep their order.
SortByRelevance(items, sorted) ==
    IF items = <<>> THEN sorted
    ELSE SortByRelevance(Tail(items), InsertByRelevance(sorted, Head(items)))

\* InformationRetriever._rank_results, the set doc_ids being iterated in the
\* given order.
RankResults(r, order, query_terms) ==
    LET ranked_docs == SortByRelevance(RankedDocs(r, order, query_terms, 1), <<>>)
    IN  [i \in DOMAIN ranked_docs |-> ranked_docs[i][2]]

RECURSIVE Orderings(_)
\* The orders in which a set can be iterated.
Orderings(S) ==
    IF S = {} THEN {<<>>}
    ELSE UNION {{<<x>> \o s : s \in Orderings(S \ {x})} : x \in S}

NoOutcome == [done |-> FALSE, error |-> FALSE, matching |-> {}, returned |-> <<>>]

\* The set _evaluate_rpn returns inside search (empty where search does not
\* get that far).
Matching(r, q) ==
    IF ~r.is_ready THEN {}
    ELSE EvaluateRpn(r.trie, ToRpn(TokenizeQuery(q))).value

\* InformationRetriever.search: error is TRUE where the ValueError branch is
\* taken (the error is printed and [] returned).
SearchQuery(r, q, order) ==
    IF ~r.is_ready
    THEN [done |-> TRUE, error |-> FALSE, matching |-> {}, returned |-> <<>>]
    ELSE
    LET tokens == TokenizeQuery(q)
        query_terms == Range(tokens) \ OpTokens
        ev == EvaluateRpn(r.trie, ToRpn(tokens))
    IN  IF ev.error
        THEN [done |-> TRUE, error |-> TRUE, matching |-> {}, returned |-> <<>>]
        ELSE [done |-> TRUE, error |-> FALSE, matching |-> ev.value,
              returned |-> IF ev.value = {} THEN <<>>
                           ELSE RankResults(r, order, query_terms)]

\* InformationRetriever.__init__ with _load_data: the stats file holds the
\* given table (stats_ok: it can be read and parsed).
NewRetriever(file, stats_ok, stats) ==
    LET l == LoadFromFile(file)
    IN  [is_ready |-> l.ok /\ stats_ok,
         trie |-> l.heap,
         global_stats |-> IF l.ok /\ stats_ok THEN stats ELSE <<>>]

\* A retriever that has not been constructed.
NoRetriever == [is_ready |-> FALSE, trie |-> CompactTrie, global_stats |-> <<>>]

(***************************************************************************)
(* The index the queries run against: five documents, the terms a, b and c *)
(* in the documents {1,2,3}, {2,3,4} and {3,5}.                            *)
(***************************************************************************)
QueryPostings ==
    << <<<<"a">>, 1, 2>>,
       <<<<"a">>, 2, 2>>, <<<<"b">>, 2, 1>>,
       <<<<"a">>, 3, 2>>, <<<<"b">>, 3, 1>>, <<<<"c">>, 3, 1>>,
       <<<<"b">>, 4, 1>>,
       <<<<"c">>, 5, 3>> >>

RECURSIVE InsertAll(_, _)
InsertAll(h, postings) ==
    IF postings = <<>> THEN h
    ELSE InsertAll(TrieInsert(h, postings[1][1], postings[1][2], postings[1][3]),
                   Tail(postings))

\* mu and sigma of each term's frequencies: a is 2, 2, 2; b is 1, 1, 1; c is 1, 3.
QueryStats ==
    (<<"a">> :> [mu |-> Rat(2), sigma |-> Rat(0), df |-> 3])
    @@ (<<"b">> :> [mu |-> Rat(1), sigma |-> Rat(0), df |-> 3])
    @@ (<<"c">> :> [mu |-> Rat(2), sigma |-> Rat(1), df |-> 2])

QueryIndexFile == SaveToFile(InsertAll(CompactTrie, QueryPostings))

(***************************************************************************)
(* The indexer.                                                            *)
(***************************************************************************)
\* The characters the pattern [a-z0-9&-] matches, among those in use.
TermChars == {"&", "-", "a", "b", "c"} \cup Range(Digits)

RECURSIVE FindAll(_, _, _)
\* re.findall(r'[a-z0-9&-]+', text): the maximal runs of term characters.
FindAll(text, word, i) ==
    IF i > Len(text) THEN (IF word = <<>> THEN <<>> ELSE <<word>>)
    ELSE IF text[i] \notin TermChars
    THEN (IF word = <<>> THEN <<>> ELSE <<word>>) \o FindAll(text, <<>>, i + 1)
    ELSE FindAll(text, Append(word, text[i]), i + 1)

RECURSIVE CountTokens(_, _)
\* The loop `term_frequency[token] += 1`: the dict as a sequence of
\* <<term, count>> in insertion order.
CountTokens(tokens, tf) ==
    IF tokens = <<>> THEN tf
    ELSE
    LET token == Head(tokens)
        at == {i \in DOMAIN tf : tf[i][1] = token}
    IN  CountTokens(Tail(tokens),
                    IF at = {} THEN Append(tf, <<token, 1>>)
                    ELSE [tf EXCEPT ![CHOOSE i \in at : TRUE][2] = @ + 1])

\* The tokens of the text, each with the count 1 and as often as it occurs.
TokenizeWithoutCounting(text) ==
    LET tokens == FindAll(Lower(text), <<>>, 1)
    IN  [i \in DOMAIN tokens |-> <<tokens[i], 1>>]

\* Indexer._tokenize_and_calculate_tf
TokenizeAndCalculateTf(text) == CountTokens(FindAll(Lower(text), <<>>, 1), <<>>)

\* Indexer.__init__
NewIndexer ==
    [trie |-> CompactTrie, doc_map |-> <<>>, global_stats |-> <<>>, total_docs |-> 0]

\* An artifact path: whether a file is there, whether its last write ran to
\* the end, the process that wrote it, and what it holds (the lines of the
\* trie file, the object of a JSON file).
NoFile == [exists |-> FALSE, complete |-> FALSE, run |-> 0, lines |-> <<>>, data |-> <<>>]

\* open(path, 'w'): the file is created or truncated.
Opened(r) == [exists |-> TRUE, complete |-> FALSE, run |-> r, lines |-> <<>>, data |-> <<>>]

\* json.dump({str(k): v for k, v in doc_map.items()}, f)
DumpDocMap(doc_map) ==
    [key \in {IntToStr(k) : k \in DOMAIN doc_map} |->
        doc_map[CHOOSE k \in DOMAIN doc_map : IntToStr(k) = key]]

\* {int(k): v for k, v in doc_map_str.items()}
LoadDocMap(data) ==
    [k \in {ParseInt(key).val : key \in DOMAIN data} |->
        data[CHOOSE key \in DOMAIN data : ParseInt(key).val = k]]

\* A JSON file json.load accepts.
Readable(file) == file.exists /\ file.complete

\* Indexer._load_or_create_index_data: the indexer afterwards, and the value
\* returned.
LoadOrCreateIndexData(x, d) ==
    LET l == LoadFromFile(d.trie)
        with_trie == [x EXCEPT !.trie = l.heap]
        with_map == IF Readable(d.map)
                    THEN [with_trie EXCEPT
                             !.doc_map = LoadDocMap(d.map.data),
                             !.total_docs = Cardinality(DOMAIN d.map.data)]
                    ELSE with_trie
        with_stats == IF Readable(d.stats)
                      THEN [with_map EXCEPT !.global_stats = d.stats.data]
                      ELSE with_map
    IN  IF l.ok
        THEN [indexer |-> with_stats,
              ready |-> DOMAIN with_stats.doc_map # {}
                        /\ DOMAIN with_stats.global_stats # {}]
        ELSE [indexer |-> with_trie, ready |-> FALSE]

NoRawStats == [sum_tf |-> 0, sum_tf2 |-> 0, df |-> 0]

RECURSIVE IndexTerms(_, _, _)
\* The loop over term_frequencies.items() for one document: the trie and
\* raw_stats.
IndexTerms(st, doc_id, tfs) ==
    IF tfs = <<>> THEN st
    ELSE
    LET term == tfs[1][1]
        tf == tfs[1][2]
        old == IF term \in DOMAIN st.raw_stats THEN st.raw_stats[term] ELSE NoRawStats
    IN  IndexTerms([trie |-> TrieInsert(st.trie, term, doc_id, tf),
                    raw_stats |-> (term :> [sum_tf |-> old.sum_tf + tf,
                                            sum_tf2 |-> old.sum_tf2 + tf * tf,
                                            df |-> old.df + 1])
                                  @@ st.raw_stats],
                   doc_id, Tail(tfs))

RECURSIVE IndexFiles(_, _, _, _)
\* Pass 1 of index_corpus from the file that gets doc_id on: the indexer and
\* raw_stats.
IndexFiles(x, raw_stats, texts, doc_id) ==
    IF doc_id > Len(texts) THEN [indexer |-> x, raw_stats |-> raw_stats]
    ELSE
    LET st == IndexTerms([trie |-> x.trie, raw_stats |-> raw_stats], doc_id,
                         TokenizeAndCalculateTf(texts[doc_id]))
    IN  IndexFiles([x EXCEPT !.trie = st.trie,
                             !.doc_map = (doc_id :> doc_id) @@ @,
                             !.total_docs = doc_id],
                   st.raw_stats, texts, doc_id + 1)

RECURSIVE SqrtBetween(_, _, _)
\* The largest r in lo..hi with r * r <= n.
SqrtBetween(n, lo, hi) ==
    IF lo = hi THEN lo
    ELSE LET mid == (lo + hi + 1) \div 2
         IN  IF mid * mid <= n THEN SqrtBetween(n, mid, hi)
             ELSE SqrtBetween(n, lo, mid - 1)

\* math.sqrt of the rational n / (d * d), to three decimals.
RatSqrt(n, d) == <<SqrtBetween(n * 1000000, 0, 40000), d * 1000>>

\* The first loop of _calculate_and_save_stats: mu = sum_tf / df,
\* variance = sum_tf2 / df - mu ** 2, sigma = sqrt(variance).
FinalStats(raw_stats) ==
    [term \in DOMAIN raw_stats |->
        LET data == raw_stats[term]
        IN  [mu |-> <<data.sum_tf, data.df>>,
             sigma |-> RatSqrt(data.sum_tf2 * data.df - data.sum_tf * data.sum_tf,
                               data.df),
             df |-> data.df]]

\* index_corpus after the load failed, up to the assignment of
\* self.global_stats.
BuildIndexData(x, texts) ==
    LET built == IndexFiles(x, <<>>, texts, 1)
    IN  [built.indexer EXCEPT
            !.trie = Normalize(@),
            !.global_stats = FinalStats(built.raw_stats)]

\* What an interrupted write can leave of the lines: the first lines, the
\* last of them possibly short of its end.
Interrupted(lines) ==
    {SubSeq(lines, 1, k) : k \in 0..(Len(lines) - 1)}
    \cup {Append(SubSeq(lines, 1, k - 1), SubSeq(lines[k], 1, Len(lines[k]) - 2)) :
             k \in 1..Len(lines)}

(***************************************************************************)
(* Variables at rest: the part of the state a specification does not use.  *)
(***************************************************************************)
IdleTrie ==
    /\ trie = CompactTrie
    /\ inserted = EmptyBag
    /\ nchars = 0
    /\ trie_file = Absent
    /\ loaded = [done |-> FALSE, ok |-> FALSE, heap |-> CompactTrie]

IdleQuery ==
    /\ ri = NoRetriever
    /\ query = <<>>
    /\ outcome = NoOutcome

IdleIndex ==
    /\ corpus = <<>>
    /\ disk = [trie |-> NoFile, map |-> NoFile, stats |-> NoFile]
    /\ ix = NewIndexer
    /\ pc = "idle"
    /\ run = 0

(***************************************************************************)
(* The trie on its own: any inserts, then one save and one load.           *)
(***************************************************************************)
\* The non-empty words over TrieChars of at most n characters.
Words(n) == UNION {[1..k -> TrieChars] : k \in 1..n}

InitTrie ==
    /\ trie = CompactTrie
    /\ inserted = EmptyBag
    /\ nchars = 0
    /\ trie_file = Absent
    /\ loaded = [done |-> FALSE, ok |-> FALSE, heap |-> CompactTrie]
    /\ IdleQuery
    /\ IdleIndex

\* trie.insert(word, doc_id, frequency)
Insert(word, posting) ==
    /\ ~trie_file.exists
    /\ trie' = Normalize(TrieInsert(trie, word, posting[1], posting[2]))
    /\ inserted' = inserted (+) SetToBag({<<word, posting[1], posting[2]>>})
    /\ nchars' = nchars + Len(word)
    /\ UNCHANGED <<trie_file, loaded, queryVars, indexVars>>

\* trie.save_to_file(trie_file)
Save ==
    /\ ~trie_file.exists
    /\ trie_file' = SaveToFile(trie)
    /\ UNCHANGED <<trie, inserted, nchars, loaded, queryVars, indexVars>>

\* CompactTrie().load_from_file(trie_file)
Load ==
    /\ trie_file.exists
    /\ ~loaded.done
    /\ loaded' = [done |-> TRUE] @@ LoadFromFile(trie_file)
    /\ UNCHANGED <<trie, inserted, nchars, trie_file, queryVars, indexVars>>

NextTrie ==
    \/ \E word \in Words(MaxChars - nchars), posting \in Postings :
          Insert(word, posting)
    \/ Save
    \/ Load

SpecTrie == InitTrie /\ [][NextTrie]_vars


(***************************************************************************)
(* The query side: a query is typed token by token and searched.           *)
(***************************************************************************)
\* What can be typed: the terms a, b, c, the term D (which the index does
\* not hold), the operators and the parentheses.
MissingTerm == <<"D">>
Lexemes == {<<"a">>, <<"b">>, <<"c">>, MissingTerm, AND, OR, LPAREN, RPAREN}

RECURSIVE ViableFrom(_, _, _, _)
\* The tokens from i on continue a prefix of a well-formed query that has
\* `depth` open parentheses and expects an operand (or else an operator).
ViableFrom(tokens, i, depth, operand) ==
    IF i > Len(tokens) THEN TRUE
    ELSE IF operand
    THEN IF tokens[i] \notin OpTokens THEN ViableFrom(tokens, i + 1, depth, FALSE)
         ELSE IF tokens[i] = LPAREN THEN ViableFrom(tokens, i + 1, depth + 1, TRUE)
         ELSE FALSE
    ELSE IF tokens[i] \in {AND, OR} THEN ViableFrom(tokens, i + 1, depth, TRUE)
         ELSE IF tokens[i] = RPAREN /\ depth > 0
         THEN ViableFrom(tokens, i + 1, depth - 1, FALSE)
         ELSE FALSE

Viable(tokens) == ViableFrom(tokens, 1, 0, TRUE)

InitQuery ==
    /\ IdleTrie
    /\ IdleIndex
    /\ ri = NewRetriever(QueryIndexFile, TRUE, QueryStats)
    /\ query = <<>>
    /\ outcome = NoOutcome

\* One more token of the query string, set off by a blank except inside
\* parentheses.
Type(lexeme) ==
    LET sep == IF query = <<>> \/ query[Len(query)] = "(" \/ lexeme = RPAREN
               THEN <<>> ELSE <<" ">>
        q == query \o sep \o lexeme
        tokens == TokenizeQuery(q)
    IN  /\ ~outcome.done
        /\ query = <<>> \/ TokenizeQuery(query) # <<>>
        /\ \/ Len(tokens) <= MaxFreeTokens
           \/ /\ Len(tokens) <= MaxTokens
              /\ Viable(tokens)
              /\ lexeme # MissingTerm
        /\ query' = q
        /\ UNCHANGED <<ri, outcome, trieVars, indexVars>>

\* One more blank of a query string that holds blanks only.
TypeBlank ==
    /\ ~outcome.done
    /\ TokenizeQuery(query) = <<>>
    /\ Len(query) < MaxFreeTokens
    /\ query' = Append(query, " ")
    /\ UNCHANGED <<ri, outcome, trieVars, indexVars>>

\* A search that takes the first posting off every inverted list it may
\* have read.
AfterSearchDraining(r, q) ==
    IF TokenizeQuery(q) = <<>> THEN r
    ELSE [r EXCEPT !.trie =
             [id \in DOMAIN r.trie |->
                 [r.trie[id] EXCEPT !.inverted_index =
                     IF @ = <<>> THEN @ ELSE Tail(@)]]]

\* The retriever after search(q): search, _tokenize_query, _to_rpn,
\* _evaluate_rpn, _rank_results and find assign to locals only.
AfterSearch(r, q) == r

\* retriever.search(query); the set of matching documents is iterated in
\* some order.
Search ==
    /\ ~outcome.done
    /\ \E order \in Orderings(Matching(ri, query)) :
          outcome' = SearchQuery(ri, query, order)
    /\ ri' = AfterSearch(ri, query)
    /\ UNCHANGED <<query, trieVars, indexVars>>

\* The next query starts.
NewQuery ==
    /\ outcome.done
    /\ query' = <<>>
    /\ outcome' = NoOutcome
    /\ UNCHANGED <<ri, trieVars, indexVars>>

NextQuery ==
    \/ \E lexeme \in Lexemes : Type(lexeme)
    \/ TypeBlank
    \/ Search
    \/ NewQuery

SpecQuery == InitQuery /\ [][NextQuery]_vars

(***************************************************************************)
(* The indexer process: index_corpus step by step, each file operation a   *)
(* step that can fail, the process stopping at any point, and a new        *)
(* process started on what the last one left on disk.                      *)
(***************************************************************************)
\* The texts a file of the corpus can hold.
DocTexts ==
    { <<"a">>,
      <<"a", "b", " ", "a", " ", "A", "b">>,
      <<"A", "-", "b", ",", " ", "b">> }

Corpora == UNION {[1..n -> DocTexts] : n \in 0..MaxDocs}

Artifacts == {"trie", "map", "stats"}

\* The artifact written after f, in the order of _calculate_and_save_stats.
OpenAfter(f) ==
    CASE f = "trie" -> "open_map"
      [] f = "map" -> "open_stats"
      [] f = "stats" -> "done"

\* What the complete file f holds when the indexer x writes it.
Written(f, x, r) ==
    [exists |-> TRUE, complete |-> TRUE, run |-> r,
     lines |-> IF f = "trie" THEN PreOrderSerialize(x.trie, 1) ELSE <<>>,
     data |-> CASE f = "trie" -> <<>>
                [] f = "map" -> DumpDocMap(x.doc_map)
                [] f = "stats" -> x.global_stats]

\* What the files a write to f did not finish can hold.
PartlyWritten(f, x, r) ==
    {[Opened(r) EXCEPT !.lines = lines] :
        lines \in IF f = "trie" THEN Interrupted(PreOrderSerialize(x.trie, 1))
                  ELSE {<<>>}}

\* Where a failed operation on f leaves the process: save_to_file catches
\* the exception and returns, the two json.dump blocks let it propagate.
AfterFailure(f) == IF f = "trie" THEN OpenAfter(f) ELSE "failed"

InitIndex ==
    /\ IdleTrie
    /\ IdleQuery
    /\ corpus \in Corpora
    /\ disk = [trie |-> NoFile, map |-> NoFile, stats |-> NoFile]
    /\ ix = NewIndexer
    /\ pc = "load"
    /\ run = 1

\* index_corpus: _load_or_create_index_data
LoadOrCreate ==
    /\ pc = "load"
    /\ LET r == LoadOrCreateIndexData(ix, disk)
       IN  /\ ix' = r.indexer
           /\ pc' = IF r.ready THEN "ready" ELSE "build"
    /\ UNCHANGED <<corpus, disk, run, trieVars, queryVars>>

\* index_corpus: pass 1 and the statistics
BuildIndex ==
    /\ pc = "build"
    /\ ix' = BuildIndexData(ix, corpus)
    /\ pc' = "open_trie"
    /\ UNCHANGED <<corpus, disk, run, trieVars, queryVars>>

\* open(path, 'w') succeeds
OpenFile(f) ==
    /\ pc = "open_" \o f
    /\ disk' = [disk EXCEPT ![f] = Opened(run)]
    /\ pc' = "write_" \o f
    /\ UNCHANGED <<corpus, ix, run, trieVars, queryVars>>

\* open(path, 'w') raises
OpenFails(f) ==
    /\ pc = "open_" \o f
    /\ pc' = AfterFailure(f)
    /\ UNCHANGED <<corpus, disk, ix, run, trieVars, queryVars>>

\* the writes to the open file succeed and it is closed
WriteFile(f) ==
    /\ pc = "write_" \o f
    /\ disk' = [disk EXCEPT ![f] = Written(f, ix, run)]
    /\ pc' = OpenAfter(f)
    /\ UNCHANGED <<corpus, ix, run, trieVars, queryVars>>

\* a write to the open file raises
WriteFails(f) ==
    /\ pc = "write_" \o f
    /\ \E file \in PartlyWritten(f, ix, run) : disk' = [disk EXCEPT ![f] = file]
    /\ pc' = AfterFailure(f)
    /\ UNCHANGED <<corpus, ix, run, trieVars, queryVars>>

\* the process is stopped between two file operations
Stop ==
    /\ pc \in {"build"} \cup {"open_" \o f : f \in Artifacts}
    /\ pc' = "stopped"
    /\ UNCHANGED <<corpus, disk, ix, run, trieVars, queryVars>>

\* the process is stopped while it writes a file
StopWriting(f) ==
    /\ pc = "write_" \o f
    /\ \E file \in PartlyWritten(f, ix, run) : disk' = [disk EXCEPT ![f] = file]
    /\ pc' = "stopped"
    /\ UNCHANGED <<corpus, ix, run, trieVars, queryVars>>

\* Indexer(...).index_corpus() in a new process
Restart ==
    /\ pc \in {"ready", "done", "failed", "stopped"}
    /\ run < MaxRuns
    /\ ix' = NewIndexer
    /\ pc' = "load"
    /\ run' = run + 1
    /\ UNCHANGED <<corpus, disk, trieVars, queryVars>>

NextIndex ==
    \/ LoadOrCreate
    \/ BuildIndex
    \/ \E f \in Artifacts : OpenFile(f)
    \/ \E f \in Artifacts : OpenFails(f)
    \/ \E f \in Artifacts : WriteFile(f)
    \/ \E f \in Artifacts : WriteFails(f)
    \/ Stop
    \/ \E f \in Artifacts : StopWriting(f)
    \/ Restart

SpecIndex == InitIndex /\ [][NextIndex]_vars

(***************************************************************************)
(* The application: app.py builds its retriever when the module is         *)
(* imported, indexes at start-up when an artifact is missing, and serves   *)
(* queries; indexer.py can be run by hand while the application serves.    *)
(***************************************************************************)
\* Indexer(...).index_corpus() running to its end: the artifacts afterwards.
IndexCorpus(d, texts, r) ==
    LET l == LoadOrCreateIndexData(NewIndexer, d)
        x == BuildIndexData(l.indexer, texts)
    IN  IF l.ready THEN d ELSE [f \in Artifacts |-> Written(f, x, r)]

\* InformationRetriever(trie_file, stats_file) on the artifacts d.
RetrieverOn(d) == NewRetriever(d.trie, Readable(d.stats), d.stats.data)

\* What the application can find on disk when it starts: nothing, the index
\* of the corpus, or that index with the trie or the statistics missing or
\* cut off at the start.
StartDisks(texts) ==
    LET none == [f \in Artifacts |-> NoFile]
        full == IndexCorpus(none, texts, 0)
    IN  {none, full}
        \cup {[full EXCEPT ![f] = file] :
                 f \in {"trie", "stats"}, file \in {NoFile, Opened(0)}}

\* The queries a user sends.
ServedQueries ==
    { <<"a">>, <<"b">>, <<"a", " ", "A", "N", "D", " ", "b">>,
      <<"a", " ", "O", "R">> }

InitServe ==
    /\ IdleTrie
    /\ corpus \in Corpora
    /\ disk \in StartDisks(corpus)
    /\ ix = NewIndexer
    /\ ri = NoRetriever
    /\ query = <<>>
    /\ outcome = NoOutcome
    /\ pc = "import"
    /\ run = 1

\* app.py, module level: retriever = InformationRetriever(...)
Construct ==
    /\ pc = "import"
    /\ ri' = RetrieverOn(disk)
    /\ pc' = "main"
    /\ UNCHANGED <<corpus, disk, ix, run, query, outcome, trieVars>>

\* app.py, __main__: the three artifacts exist
SkipIndexing ==
    /\ pc = "main"
    /\ \A f \in Artifacts : disk[f].exists
    /\ pc' = "run"
    /\ UNCHANGED <<corpus, disk, ix, run, ri, query, outcome, trieVars>>

\* Indexer(...).index_corpus() run to its end: by app.py at start-up when an
\* artifact is missing (at = "main"), or by indexer.py, started by hand
\* while the application serves (at = "serve").
RunIndexer(at) ==
    /\ pc = at
    /\ IF at = "main" THEN \E f \in Artifacts : ~disk[f].exists
       ELSE run <= MaxRuns
    /\ disk' = IndexCorpus(disk, corpus, run)
    /\ run' = run + 1
    /\ pc' = IF at = "main" THEN "run" ELSE at
    /\ UNCHANGED <<corpus, ix, ri, query, outcome, trieVars>>

\* app.run(debug=True): the serving process imports the module anew
\* ("O servidor será reiniciado"), so its retriever is built on the
\* artifacts as they are now.
Run ==
    /\ pc = "run"
    /\ ri' = RetrieverOn(disk)
    /\ pc' = "serve"
    /\ UNCHANGED <<corpus, disk, ix, run, query, outcome, trieVars>>

\* GET /search?query=q
Serve(q) ==
    /\ pc = "serve"
    /\ query' = q
    /\ \E order \in Orderings(Matching(ri, q)) :
          outcome' = SearchQuery(ri, q, order)
    /\ UNCHANGED <<corpus, disk, ix, run, ri, pc, trieVars>>

NextServe ==
    \/ Construct
    \/ SkipIndexing
    \/ \E at \in {"main", "serve"} : RunIndexer(at)
    \/ Run
    \/ \E q \in ServedQueries : Serve(q)

SpecServe == InitServe /\ [][NextServe]_vars


(***************************************************************************)
(* Loading a trie file that was damaged after it was saved: a line lost,   *)
(* a line too many, or a line short of a field.                            *)
(***************************************************************************)
\* trie.insert(word, doc_id, frequency), the trie staying small.
InsertShort(word, posting) ==
    /\ nchars + Len(word) <= MaxLoadChars
    /\ Insert(word, posting)

\* The file as save_to_file left it.
AsSaved == trie_file.exists /\ ~loaded.done /\ trie_file = SaveToFile(trie)

\* Line k of the file is lost.
DropLine(k) ==
    /\ AsSaved
    /\ k \in DOMAIN trie_file.lines
    /\ trie_file' = File(SubSeq(trie_file.lines, 1, k - 1)
                         \o SubSeq(trie_file.lines, k + 1, Len(trie_file.lines)))
    /\ UNCHANGED <<trie, inserted, nchars, loaded, queryVars, indexVars>>

\* The file gets the line of one more node at its end.
ExtraLine(word, posting) ==
    /\ AsSaved
    /\ trie_file' = File(Append(trie_file.lines,
                                NodeLine(Leaf(word, posting[1], posting[2]))))
    /\ UNCHANGED <<trie, inserted, nchars, loaded, queryVars, indexVars>>

\* Line k of the file loses its last field and the separator before it.
CutField(k) ==
    /\ AsSaved
    /\ k \in DOMAIN trie_file.lines
    /\ LET fields == Split(Strip(trie_file.lines[k]), "|")
       IN  trie_file' = File([trie_file.lines EXCEPT ![k] =
                                 Join(<<"|">>, SubSeq(fields, 1, Len(fields) - 1))
                                 \o <<"\n">>])
    /\ UNCHANGED <<trie, inserted, nchars, loaded, queryVars, indexVars>>

NextLoad ==
    \/ \E word \in Words(MaxLoadChars), posting \in Postings :
          InsertShort(word, posting)
    \/ Save
    \/ \E k \in 1..(MaxLoadChars + 1) : DropLine(k)
    \/ \E word \in Words(1), posting \in Postings : ExtraLine(word, posting)
    \/ \E k \in 1..(MaxLoadChars + 1) : CutField(k)
    \/ Load

SpecLoad == InitTrie /\ [][NextLoad]_vars


(***************************************************************************)
(* Claims about the trie.                                                  *)
(***************************************************************************)
\* The words looked up: every non-empty word an insert could have carried.
Probes == Words(MaxChars)

InsertedTerms == {t[1] : t \in BagToSet(inserted)}

\* The multiset of the entries of a list.
SeqToBag(s) == [e \in Range(s) |-> Cardinality({i \in DOMAIN s : s[i] = e})]

\* C1 (lookup completeness): after any sequence of inserts, find(term)
\* contains (d, f) for every inserted (term, d, f), is empty for every term
\* never inserted, and in particular is empty for every strict prefix of an
\* inserted term that was not itself inserted.
C1_LookupCompleteness ==
    /\ \A t \in BagToSet(inserted) : <<t[2], t[3]>> \in Range(TrieFind(trie, t[1]))
    /\ \A w \in Probes \ InsertedTerms : TrieFind(trie, w) = <<>>
    /\ \A w \in InsertedTerms : \A k \in 1..(Len(w) - 1) :
          Upto(w, k) \notin InsertedTerms => TrieFind(trie, Upto(w, k)) = <<>>

\* An insert that descended two levels ("abb" below "ab" below "a"), with
\* uninserted terms that end inside a label and that diverge from one.
C1_Witness ==
    /\ {<<"a">>, <<"a", "b">>, <<"a", "b", "b">>} = InsertedTerms
    /\ Len(trie) = 4
    /\ TrieFind(trie, <<"a", "b", "b">>) # <<>>
    /\ TrieFind(trie, <<"a", "b", "a">>) = <<>>
    /\ TrieFind(trie, <<"a", "b", "b", "a">>) = <<>>

\* C2 (structural invariants): in every state reached by inserts, every
\* child is stored under the first character of its label (so siblings have
\* distinct first characters), only the root has an empty label, and every
\* non-terminal node other than the root has at least two children.
C2_TrieInvariants ==
    \A id \in DOMAIN trie :
        LET node == trie[id] IN
        /\ \A c \in DOMAIN node.children :
              /\ trie[node.children[c]].label # <<>>
              /\ trie[node.children[c]].label[1] = c
        /\ \A c1, c2 \in DOMAIN node.children :
              c1 # c2 => trie[node.children[c1]].label[1]
                         # trie[node.children[c2]].label[1]
        /\ (id # 1 => node.label # <<>>)
        /\ (id # 1 /\ ~node.is_terminal => Cardinality(DOMAIN node.children) >= 2)

\* A divergent split ("aab" against "aaa") left a non-terminal inner node
\* labelled "aa" with two children.
C2_Witness ==
    \E id \in DOMAIN trie :
        /\ id # 1
        /\ ~trie[id].is_terminal
        /\ trie[id].label = <<"a", "a">>
        /\ Cardinality(DOMAIN trie[id].children) = 2

\* No (term, doc_id) pair was inserted twice.
DistinctPairs ==
    \A t \in BagToSet(inserted) :
        /\ CopiesIn(t, inserted) = 1
        /\ \A u \in BagToSet(inserted) : t[1] = u[1] /\ t[2] = u[2] => t = u

\* C3 (round trip): when the inserted (term, doc_id) pairs are distinct, the
\* trie written by save_to_file loads successfully and the loaded trie
\* returns, for every term, the multiset of (doc_id, tf) pairs the original
\* trie returns.
C3_RoundTrip ==
    loaded.done /\ DistinctPairs =>
        /\ loaded.ok
        /\ \A w \in Probes :
              SeqToBag(TrieFind(loaded.heap, w)) = SeqToBag(TrieFind(trie, w))

\* A loaded trie with an inner non-terminal node, a term with two postings
\* and a two-digit frequency.
C3_Witness ==
    /\ loaded.done
    /\ DistinctPairs
    /\ Len(TrieFind(loaded.heap, <<"a", "b">>)) = 2
    /\ TrieFind(loaded.heap, <<"a", "a">>) = <<<<2, 12>>>>
    /\ TrieFind(loaded.heap, <<"a">>) = <<>>


(***************************************************************************)
(* Claims about the query pipeline.                                        *)
(***************************************************************************)
\* The documents the index was built to hold for a term.
IndexedDocs(term) ==
    {QueryPostings[i][2] : i \in {j \in DOMAIN QueryPostings : QueryPostings[j][1] = term}}

NoParse == [ok |-> FALSE, next |-> 0, val |-> {}]

RECURSIVE RefOr(_, _), RefOrTail(_, _), RefAnd(_, _), RefAndTail(_, _), RefAtom(_, _)
\* The reference semantics, by recursive descent from token i:
\*   or-expr ::= and-expr (OR and-expr)*     union, left to right
\*   and-expr ::= atom (AND atom)*           intersection, left to right
\*   atom ::= TERM | ( or-expr )
RefAtom(tokens, i) ==
    IF i > Len(tokens) THEN NoParse
    ELSE IF tokens[i] \notin OpTokens
    THEN [ok |-> TRUE, next |-> i + 1, val |-> IndexedDocs(tokens[i])]
    ELSE IF tokens[i] = LPAREN
    THEN LET e == RefOr(tokens, i + 1)
         IN  IF e.ok /\ e.next <= Len(tokens) /\ tokens[e.next] = RPAREN
             THEN [e EXCEPT !.next = @ + 1]
             ELSE NoParse
    ELSE NoParse

RefAndTail(tokens, left) ==
    IF left.next <= Len(tokens) /\ tokens[left.next] = AND
    THEN LET right == RefAtom(tokens, left.next + 1)
         IN  IF right.ok
             THEN RefAndTail(tokens, [right EXCEPT !.val = left.val \cap @])
             ELSE NoParse
    ELSE left

RefAnd(tokens, i) ==
    LET left == RefAtom(tokens, i)
    IN  IF left.ok THEN RefAndTail(tokens, left) ELSE NoParse

RefOrTail(tokens, left) ==
    IF left.next <= Len(tokens) /\ tokens[left.next] = OR
    THEN LET right == RefAnd(tokens, left.next + 1)
         IN  IF right.ok
             THEN RefOrTail(tokens, [right EXCEPT !.val = left.val \cup @])
             ELSE NoParse
    ELSE left

RefOr(tokens, i) ==
    LET left == RefAnd(tokens, i)
    IN  IF left.ok THEN RefOrTail(tokens, left) ELSE NoParse

WellFormed(tokens) ==
    RefOr(tokens, 1).ok /\ RefOr(tokens, 1).next = Len(tokens) + 1

A == <<"a">>
B == <<"b">>
C == <<"c">>

\* C4 (boolean query semantics): for every well-formed query the set
\* computed by _to_rpn and _evaluate_rpn is the set of the reference
\* semantics (AND binds tighter than OR, both left-associative, a missing
\* term is the empty set); `a OR b AND c` gives the set of `a OR (b AND c)`,
\* `a AND b OR c` gives {2,3,5} and `a AND (b OR c)` gives {2,3}.
C4_BooleanSemantics ==
    outcome.done =>
        LET tokens == TokenizeQuery(query) IN
        /\ WellFormed(tokens) =>
              ~outcome.error /\ outcome.matching = RefOr(tokens, 1).val
        /\ tokens = <<A, OR, B, AND, C>> =>
              outcome.matching
              = EvaluateRpn(ri.trie, ToRpn(<<A, OR, LPAREN, B, AND, C, RPAREN>>)).value
        /\ tokens = <<A, AND, B, OR, C>> => outcome.matching = {2, 3, 5}
        /\ tokens = <<A, AND, LPAREN, B, OR, C, RPAREN>> => outcome.matching = {2, 3}

\* `a AND (b OR c)` has been searched.
C4_Witness ==
    /\ outcome.done
    /\ ~outcome.error
    /\ TokenizeQuery(query) = <<A, AND, LPAREN, B, OR, C, RPAREN>>
    /\ outcome.matching = {2, 3}

RECURSIVE ParenDepth(_, _, _)
\* The number of unclosed '(' after the tokens from i on, or -1 once a ')'
\* had no '(' to close.
ParenDepth(tokens, i, depth) ==
    IF i > Len(tokens) THEN depth
    ELSE IF tokens[i] = LPAREN THEN ParenDepth(tokens, i + 1, depth + 1)
    ELSE IF tokens[i] = RPAREN
    THEN (IF depth = 0 THEN -1 ELSE ParenDepth(tokens, i + 1, depth - 1))
    ELSE ParenDepth(tokens, i + 1, depth)

\* C5 (unbalanced parentheses are rejected): a query with a ')' that closes
\* no earlier '(' or with a '(' left unclosed fails with MALFORMED_QUERY and
\* is not evaluated to a document set.
C5_UnbalancedRejected ==
    outcome.done /\ ParenDepth(TokenizeQuery(query), 1, 0) # 0 =>
        outcome.error /\ outcome.returned = <<>>

RECURSIVE OperandDepth(_, _, _)
\* The number of operand sets on the stack after the postfix tokens from i
\* on, or -1 once an operator found fewer than two.
OperandDepth(rpn, i, depth) ==
    IF i > Len(rpn) THEN depth
    ELSE IF rpn[i] \notin OpTokens THEN OperandDepth(rpn, i + 1, depth + 1)
    ELSE IF rpn[i] \in {AND, OR}
    THEN (IF depth < 2 THEN -1 ELSE OperandDepth(rpn, i + 1, depth - 1))
    ELSE OperandDepth(rpn, i + 1, depth)

\* C6 (operator underflow and leftover operands are rejected): when an AND
\* or OR of the postfix sequence finds fewer than two operand sets, or the
\* stack does not hold exactly one set at the end, the evaluation fails with
\* MALFORMED_QUERY and no set is returned.
C6_UnderflowRejected ==
    outcome.done /\ OperandDepth(ToRpn(TokenizeQuery(query)), 1, 0) # 1 =>
        outcome.error /\ outcome.matching = {} /\ outcome.returned = <<>>

\* `a AND` has been searched: the AND found one operand.
C6_Witness ==
    /\ outcome.done
    /\ outcome.error
    /\ TokenizeQuery(query) = <<A, AND>>

\* C7 (empty query): a query string with no tokens makes search return an
\* empty result without taking the malformed-query error path.
C7_EmptyQueryNoError ==
    outcome.done /\ TokenizeQuery(query) = <<>> =>
        ~outcome.error /\ outcome.returned = <<>>

\* The relevance _rank_results computes for a document of the last search.
Relevance(doc_id) ==
    LET s == ScoreTerms(ri, doc_id, Range(TokenizeQuery(query)) \ OpTokens,
                        [total |-> Rat(0), count |-> 0])
    IN  <<s.total[1], s.total[2] * s.count>>

\* C8 (ranking order): the list search returns is sorted by non-increasing
\* relevance, and documents of equal relevance are in ascending doc_id
\* order, in whatever order the candidate set is iterated.
C8_RankingOrder ==
    outcome.done =>
        \A i, j \in DOMAIN outcome.returned :
            i < j =>
                /\ ~RatLess(Relevance(outcome.returned[i]), Relevance(outcome.returned[j]))
                /\ RatEq(Relevance(outcome.returned[i]), Relevance(outcome.returned[j]))
                      => outcome.returned[i] < outcome.returned[j]

(***************************************************************************)
(* Claims about the indexer.                                               *)
(***************************************************************************)
\* The artifacts at their final paths are those of one finished build, or
\* none is there.
SealedOrAbsent ==
    \/ \A f \in Artifacts : ~disk[f].exists
    \/ /\ \A f \in Artifacts : disk[f].exists /\ disk[f].complete
       /\ \A f, g \in Artifacts : disk[f].run = disk[g].run

\* C9 (atomic sealing): at no moment do the final paths hold a partial
\* artifact set (some but not all artifacts of a build, or a partly written
\* artifact), also when a write fails or the process stops between writes;
\* after a write failure none of the three artifacts is left.
C9_AtomicSealing ==
    /\ SealedOrAbsent
    /\ pc = "failed" => \A f \in Artifacts : ~disk[f].exists

\* Some artifact is on disk, but not all three completely written.
HalfWritten ==
    /\ \E f \in Artifacts : disk[f].exists
    /\ \E f \in Artifacts : ~(disk[f].exists /\ disk[f].complete)

\* C10 (discard and rebuild): when index_corpus starts on a half-written or
\* incomplete artifact set, the old index is not used as it is, the build
\* starts from an empty trie, and the rebuilt trie is the trie of the corpus
\* alone.  (No step between the start of index_corpus and the end of pass 1
\* writes to the disk.)
C10_DiscardAndRebuild ==
    HalfWritten =>
        /\ pc # "ready"
        /\ pc = "build" => ix.trie = CompactTrie
        /\ pc = "open_trie" => ix.trie = BuildIndexData(NewIndexer, corpus).trie

(***************************************************************************)
(* Claims about loading.                                                   *)
(***************************************************************************)
\* The grammar of a node line: label|flag|children|postings, the postings
\* doc,tf pairs joined by ";".
LineOk(line) ==
    LET fields == Split(Strip(line), "|")
    IN  /\ line # <<>> /\ line[Len(line)] = "\n"
        /\ Len(fields) = 4
        /\ fields[2] \in {<<"0">>, <<"1">>}
        /\ ParseInt(fields[3]).ok
        /\ ParseIndex(fields[4]).ok

\* The number of children line i declares.
Declared(lines, i) == ParseInt(Split(Strip(lines[i]), "|")[3]).val

RECURSIVE SubtreeEnd(_, _), ChildrenEnd(_, _, _)
\* The line after the subtree whose node is line i, 0 when a declared child
\* is missing.
SubtreeEnd(lines, i) ==
    IF i = 0 \/ i > Len(lines) THEN 0
    ELSE ChildrenEnd(lines, i + 1, Declared(lines, i))

ChildrenEnd(lines, i, n) ==
    IF n = 0 \/ i = 0 THEN i
    ELSE ChildrenEnd(lines, SubtreeEnd(lines, i), n - 1)

\* The file follows the format: every line is a node line, and the lines
\* are exactly the declared children, in pre-order.
FormatOk(lines) ==
    /\ lines # <<>>
    /\ \A i \in DOMAIN lines : LineOk(lines[i])
    /\ SubtreeEnd(lines, 1) = Len(lines) + 1

\* C11 (corrupt trie files are detected): load_from_file returns False for
\* every trie file that violates the format -- a line without the four
\* fields, too few lines for the declared children, or lines after the last
\* declared child.
C11_CorruptDetected ==
    loaded.done /\ ~FormatOk(trie_file.lines) => ~loaded.ok

(***************************************************************************)
(* Claims about the application.                                           *)
(***************************************************************************)
\* The indexer has run to its end since the application started: the three
\* artifacts are whole and none is older than the start.
Reindexed ==
    \A f \in Artifacts : disk[f].exists /\ disk[f].complete /\ disk[f].run >= 1

\* C12 (unreadable index is not loaded): a retriever constructed on a trie
\* file or a stats file that cannot be read or parsed is not ready; a
\* retriever that is not ready answers every search with no documents and
\* without an error; and once reindexing has completed, queries are served
\* again.
C12_UnreadableNotLoaded ==
    /\ pc = "main" /\ (~disk.trie.exists \/ ~FormatOk(disk.trie.lines)
                       \/ ~Readable(disk.stats))
          => ~ri.is_ready
    /\ outcome.done /\ ~ri.is_ready
          => outcome.returned = <<>> /\ ~outcome.error /\ outcome.matching = {}
    /\ pc = "serve" /\ Reindexed => ri.is_ready

(***************************************************************************)
(* Further claims about the query pipeline.                                *)
(***************************************************************************)
\* What search returns to its caller for a well-formed query that matches
\* no document: the one term of the query is not in the index.
ReturnedForNoMatch == SearchQuery(ri, MissingTerm, <<>>).returned

\* C13 (errors are values distinct from an empty result): what search
\* returns to its caller for a malformed query differs from what it returns
\* for a well-formed query that matches zero documents.
C13_ErrorDistinctFromEmpty ==
    /\ outcome.done
    /\ TokenizeQuery(query) # <<>>
    /\ ~WellFormed(TokenizeQuery(query))
    => outcome.returned # ReturnedForNoMatch

\* The retriever as constructed on the index files.
FreshRetriever == NewRetriever(QueryIndexFile, TRUE, QueryStats)

\* C14 (read-only query side): whatever queries have been searched,
\* well-formed or malformed, the trie (every node, label, terminal flag and
\* inverted list) and the statistics table are as loaded, and the outcome
\* of a query is the one the same query has as the first query on the
\* freshly loaded index (the matching set iterated in an order that gives
\* the documents as returned).
C14_ReadOnlyQuerySide ==
    /\ ri = FreshRetriever
    /\ outcome.done =>
          /\ Range(outcome.returned) \subseteq Matching(FreshRetriever, query)
          /\ outcome = SearchQuery(FreshRetriever, query, outcome.returned)

\* `a AND (b OR c)` has been searched and its two documents returned, the
\* index still as loaded.
C14_Witness ==
    /\ outcome.done
    /\ TokenizeQuery(query) = <<A, AND, LPAREN, B, OR, C, RPAREN>>
    /\ Len(outcome.returned) = 2
    /\ ri.trie = FreshRetriever.trie

(***************************************************************************)
(* Ranking on its own: the term a in two documents and the term b in the   *)
(* second, under any small statistics table for a and none for b.          *)
(***************************************************************************)
\* The frequencies of a in a document, and the mu and sigma its statistics
\* entry can hold.
RankTfs == {1, 2, 10}
RankMus == {Rat(1), Rat(4), <<3, 2>>}
RankSigmas == {Rat(-1), Rat(0), Rat(3), <<1, 2>>}

\* The statistics tables: no entry for a, or one with the given mu and sigma.
RankStats ==
    {<<>>} \cup {A :> [mu |-> mu, sigma |-> sigma, df |-> 2] :
                    mu \in RankMus, sigma \in RankSigmas}

RankQueries == {A, A \o <<" ">> \o OR \o <<" ">> \o B}

InitRank ==
    /\ IdleTrie
    /\ IdleIndex
    /\ \E tf1, tf2 \in RankTfs, stats \in RankStats :
          ri = NewRetriever(SaveToFile(InsertAll(CompactTrie,
                                <<<<A, 1, tf1>>, <<A, 2, tf2>>, <<B, 2, 1>>>>)),
                            TRUE, stats)
    /\ query \in RankQueries
    /\ outcome = NoOutcome

NextRank == Search

SpecRank == InitRank /\ [][NextRank]_vars

\* The z-score of a in document doc_id, as the last search computed it.
ZScoreOfA(doc_id) ==
    CalculateZScore(ri.global_stats, FirstTf(TrieFind(ri.trie, A), doc_id, 1), A)

\* C15 (z-score cases): _calculate_z_score returns 0 for a term without a
\* statistics entry; for sigma <= 0 it returns 1.0 when tf > mu and 0.0
\* otherwise, and divides by nothing; otherwise it returns (tf - mu) / sigma.
\* With mu = 4 and sigma = 3 that is 2.0 for tf = 10 and a negative score for
\* tf = 2, and the document with tf = 10 is ranked first.
C15_ZScoreCases ==
    outcome.done =>
        /\ \A doc_id \in {1, 2} :
              LET tf == FirstTf(TrieFind(ri.trie, A), doc_id, 1)
                  z == ZScoreOfA(doc_id)
                  stats == ri.global_stats
              IN  /\ z[2] > 0
                  /\ A \notin DOMAIN stats => z = Rat(0)
                  /\ A \in DOMAIN stats /\ stats[A].sigma[1] <= 0 =>
                        z = IF tf * stats[A].mu[2] > stats[A].mu[1]
                            THEN Rat(1) ELSE Rat(0)
                  /\ A \in DOMAIN stats /\ stats[A].sigma[1] > 0 =>
                        z[1] * stats[A].sigma[1] * stats[A].mu[2]
                           = (tf * stats[A].mu[2] - stats[A].mu[1])
                             * z[2] * stats[A].sigma[2]
        /\ CalculateZScore(ri.global_stats, 1, B) = Rat(0)
        /\ query = A /\ RatLess(ZScoreOfA(1), ZScoreOfA(2)) =>
              outcome.returned = <<2, 1>>
        /\ query = A /\ RatLess(ZScoreOfA(2), ZScoreOfA(1)) =>
              outcome.returned = <<1, 2>>
        /\ /\ A \in DOMAIN ri.global_stats
           /\ ri.global_stats[A].mu = Rat(4)
           /\ ri.global_stats[A].sigma = Rat(3)
           /\ TrieFind(ri.trie, A) = <<<<1, 2>>, <<2, 10>>>>
           => /\ RatEq(ZScoreOfA(2), Rat(2))
              /\ RatLess(ZScoreOfA(1), Rat(0))

\* The example of the claim has been searched: mu = 4, sigma = 3, tf = 2 in
\* document 1 and tf = 10 in document 2, and document 2 comes first.
C15_Witness ==
    /\ outcome.done
    /\ query = A
    /\ A \in DOMAIN ri.global_stats
    /\ ri.global_stats[A].mu = Rat(4)
    /\ ri.global_stats[A].sigma = Rat(3)
    /\ TrieFind(ri.trie, A) = <<<<1, 2>>, <<2, 10>>>>
    /\ outcome.returned = <<2, 1>>

(***************************************************************************)
(* Further claims about the indexer.                                       *)
(***************************************************************************)
\* The number of times the term occurs in the text.
Occurrences(term, text) ==
    LET tokens == FindAll(Lower(text), <<>>, 1)
    IN  Cardinality({i \in DOMAIN tokens : tokens[i] = term})

\* The terms of the corpus.
CorpusTerms ==
    UNION {Range(FindAll(Lower(corpus[d]), <<>>, 1)) : d \in DOMAIN corpus}

\* The first run of the indexer, which found no artifact, has built its trie
\* and is saving it or has finished.
BuiltFromScratch ==
    /\ run = 1
    /\ pc \in {"open_" \o f : f \in Artifacts} \cup {"write_" \o f : f \in Artifacts}
             \cup {"done", "failed"}

\* C16 (inverted-list shape after indexing): after index_corpus has built
\* the index from scratch, the documents have the ids 1..n in the order they
\* were read, and every term's inverted list has its entries in strictly
\* increasing doc_id order (so at most one per document), one for each
\* document the term occurs in, with tf the number of occurrences of the
\* term in that document, which is at least 1.
C16_InvertedListShape ==
    BuiltFromScratch =>
        /\ DOMAIN ix.doc_map = 1..Len(corpus)
        /\ \A term \in CorpusTerms :
              LET list == TrieFind(ix.trie, term)
              IN  /\ \A i, j \in DOMAIN list : i < j => list[i][1] < list[j][1]
                  /\ \A i \in DOMAIN list :
                        /\ list[i][1] \in DOMAIN corpus
                        /\ list[i][2] = Occurrences(term, corpus[list[i][1]])
                        /\ list[i][2] >= 1
                  /\ \A d \in DOMAIN corpus :
                        Occurrences(term, corpus[d]) > 0 =>
                            \E i \in DOMAIN list : list[i][1] = d
        /\ \A id \in DOMAIN ix.trie :
              \A i, j \in DOMAIN ix.trie[id].inverted_index :
                  i < j => ix.trie[id].inverted_index[i][1]
                              < ix.trie[id].inverted_index[j][1]

\* Two documents have been indexed, the second with ab twice and a once.
C16_Witness ==
    /\ BuiltFromScratch
    /\ Len(corpus) = 2
    /\ TrieFind(ix.trie, <<"a">>) = <<<<1, 1>>, <<2, 1>>>>
    /\ TrieFind(ix.trie, <<"a", "b">>) = <<<<2, 2>>>>

(***************************************************************************)
(* Further claims about the trie.                                          *)
(***************************************************************************)
RECURSIVE Stored(_, _, _)
\* The terminal nodes below id, each with the string its path from the root
\* spells: the labels concatenated.
Stored(h, id, prefix) ==
    LET path == prefix \o h[id].label
    IN  (IF h[id].is_terminal THEN {<<path, id>>} ELSE {})
        \cup UNION {Stored(h, h[id].children[c], path) : c \in DOMAIN h[id].children}

\* C17 (stored terms and payload placement): after any inserts of non-empty
\* terms, the strings spelled by the root paths of the terminal nodes are
\* exactly the inserted terms, each spelled by one node; a node with a
\* non-empty inverted list is terminal; and whatever splits have happened,
\* the inverted list of the node that spells a term holds exactly the
\* postings inserted for that term.
C17_StoredTerms ==
    LET stored == Stored(trie, 1, <<>>)
    IN  /\ {s[1] : s \in stored} = InsertedTerms
        /\ \A s, t \in stored : s[1] = t[1] => s = t
        /\ \A id \in DOMAIN trie :
              trie[id].inverted_index # <<>> => trie[id].is_terminal
        /\ \A s \in stored :
              LET list == trie[s[2]].inverted_index
              IN  /\ Range(list) \subseteq Postings
                  /\ \A p \in Postings :
                        CopiesIn(p, SeqToBag(list))
                           = CopiesIn(<<s[1], p[1], p[2]>>, inserted)

\* abb, then its prefixes a and ab, have been inserted: two splits of a
\* label, and each of the three nodes holds the posting of its own term.
C17_Witness ==
    /\ inserted = SetToBag({<<<<"a", "b", "b">>, 1, 3>>, <<<<"a">>, 2, 12>>,
                            <<<<"a", "b">>, 2, 12>>})
    /\ Len(trie) = 4
    /\ \E s \in Stored(trie, 1, <<>>) :
          /\ s[1] = <<"a", "b", "b">>
          /\ trie[s[2]].label = <<"b">>
          /\ trie[s[2]].inverted_index = <<<<1, 3>>>>

(***************************************************************************)
(* Further claims about the ranker.                                        *)
(***************************************************************************)
\* Every posting of the index has a frequency of at least 1.
PositiveTfs ==
    \A id \in DOMAIN ri.trie :
        \A i \in DOMAIN ri.trie[id].inverted_index :
            ri.trie[id].inverted_index[i][2] >= 1

\* C18 (ranking loses no match): on an index whose frequencies are all at
\* least 1, the list search returns for a well-formed query holds every
\* document of the set _evaluate_rpn computed exactly once and no other
\* document: _rank_results drops no candidate.
C18_RankingLosesNoMatch ==
    /\ outcome.done
    /\ PositiveTfs
    /\ WellFormed(TokenizeQuery(query))
    => /\ Range(outcome.returned) = outcome.matching
       /\ Len(outcome.returned) = Cardinality(outcome.matching)

\* `a OR c` has been searched: its four documents are returned, three of
\* them with the relevance 0.
C18_Witness ==
    /\ outcome.done
    /\ PositiveTfs
    /\ TokenizeQuery(query) = <<A, OR, C>>
    /\ outcome.matching = {1, 2, 3, 5}
    /\ Len(outcome.returned) = 4

====
